---- MODULE Spec2Model ----
(***************************************************************************)
(* A model of the talkers protocol engine (src/src/lib.rs, struct Talker)  *)
(* and of the chat application that drives it (src/src/app.rs).            *)
(*                                                                         *)
(* Two engines, "A" and "B", are joined by one duplex byte stream.         *)
(* wire[s] holds the bytes written by the peer of s that s has not read.   *)
(* Every engine operation is one action; a blocking read that has not got  *)
(* its bytes yet keeps the action disabled (the caller is parked inside    *)
(* the call), and fails with end-of-stream once a side has shut down.      *)
(*                                                                         *)
(* Scaling.  Payloads are enumerated byte by byte, so the two size         *)
(* constants of the code are scaled: the message ceiling 1024 * 1024       *)
(* (lib.rs:248) is MAX_MSG, and the 1024-byte buffer (lib.rs:206, 324) is  *)
(* CHUNK.  Every comparison that the code makes against them is made       *)
(* against the scaled values, so payloads below, at and above the ceiling  *)
(* and files shorter than, equal to and longer than whole chunks occur.    *)
(***************************************************************************)
EXTENDS Integers, Sequences, FiniteSets, TLC

\* ------------------------------------------------------------ constants

INSTR_MSG == 33
INSTR_FILE == 35
INSTR_HASH == 61
NEWLINE == 10
SPACE == 32
LEN_CAP == 16
HASH_LEN == 32
MAX_MSG == 10
CHUNK == 4
NoByte == -1

Handshake == <<47, 116, 97, 108, 107, 101, 114, 115>>

Sides == {"A", "B"}

Peer(s) == IF s = "A" THEN "B" ELSE "A"

\* ------------------------------------------------------------ bounds

\* Calls made in all by the two sides when each may make any call.
MaxOps == 4

\* Calls made in all by a sender and a receiver.
MaxTransferOps == 3

\* Messages the command loop of one side sends.
MaxAppSends == 1

\* Calls made in all, and messages sent by one side, when the two sides
\* send to each other at the same time.
MaxCrossOps == 6

MaxCrossSends == 1

\* Steps made in all by a peer that writes frames byte by byte and an
\* engine that reads them.
MaxWireOps == 3

\* In the chat application the polling thread stops answering once this many
\* bytes wait unread at the peer.
MaxBacklog == 48

\* ------------------------------------------------------------ inputs

TextHi == <<104, 105>>
TextCeil == <<195, 169, 48, 49, 50, 51, 52, 53, 54, 55>>
TextOver == <<111, 118, 101, 114, 32, 108, 105, 109, 105, 116, 33>>
TextY == <<121>>

Texts == {<< >>, TextHi, TextCeil, TextOver}

File3 == <<7, 8, 9>>
File8 == <<1, 2, 3, 4, 5, 6, 7, 8>>
File9 == <<61, 2, 3, 4, 5, 6, 7, 8, 9>>

\* A reader and the length the caller passes with it.  good: how many bytes
\* the reader yields before a read of it fails (all of them: it never fails).
Stream(data, len, good) == [data |-> data, len |-> len, good |-> good]

StreamInputs ==
    {Stream(<< >>, 0, 0), Stream(File3, 3, 3), Stream(File8, 8, 8),
     Stream(File9, 9, 9), Stream(File3, 2, 3), Stream(File8, 8, 4)}

\* The inputs of the specification in which both sides make every call.
SmallTexts == {TextHi}

SmallStreams == {Stream(File3, 3, 3)}

FsOutcomes == {"ok", "nocreate", "nowrite"}

\* ------------------------------------------------------------ helpers

Min(a, b) == IF a < b THEN a ELSE b

Drop(sq, k) == SubSeq(sq, k + 1, Len(sq))

Take(sq, k) == SubSeq(sq, 1, k)

\* format!("{}", n) of an unsigned integer: its decimal digits in ASCII.
RECURSIVE Dec(_)
Dec(n) == IF n < 10 THEN <<48 + n>> ELSE Dec(n \div 10) \o <<48 + (n % 10)>>

\* The state a Sha256 hasher reaches from the bytes fed to it.  The model's
\* compression function is a 16-bit polynomial checksum.
RECURSIVE Absorb(_, _)
Absorb(h, bytes) ==
    IF bytes = << >> THEN h
    ELSE Absorb((h * 31 + Head(bytes) + 1) % 65536, Tail(bytes))

\* Sha256::new() ... update(bytes) ... finalize(): a HASH_LEN-byte digest.
Digest(bytes) ==
    LET h == Absorb(58288, bytes)
    IN  [i \in 1..HASH_LEN |->
            IF i = 1 THEN h % 256
            ELSE IF i = 2 THEN h \div 256
            ELSE (h + 7 * i) % 256]

\* String::from_utf8_lossy over the model's alphabet (code points below
\* U+0800): well-formed one- and two-byte sequences are kept, every other
\* byte is replaced by U+FFFD (EF BF BD).
RECURSIVE Lossy(_)
Lossy(b) ==
    IF b = << >> THEN << >>
    ELSE IF b[1] < 128 THEN <<b[1]>> \o Lossy(Tail(b))
    ELSE IF /\ b[1] >= 194 /\ b[1] <= 223
            /\ Len(b) >= 2 /\ b[2] >= 128 /\ b[2] <= 191
         THEN <<b[1], b[2]>> \o Lossy(Drop(b, 2))
    ELSE <<239, 191, 189>> \o Lossy(Tail(b))

\* A fired callback: its name, a numeric argument, a file name, a byte
\* argument (text or digest).  Unused arguments are 0, "" and << >>.
Ev(cb, n, name, bytes) == [cb |-> cb, n |-> n, name |-> name, bytes |-> bytes]

\* The name of a transfer file (format!("transfer_{}", nanos)).
TransferName == "transfer"

\* ------------------------------------------------------------ frames byte by byte

\* k ASCII zeros.
Zeros(k) == [x \in 1..k |-> 48]

\* A length field of d digits whose value is v: the decimal digits of v
\* after leading zeros.
Field(d, v) == Zeros(d - Len(Dec(v))) \o Dec(v)

\* The bytes of a frame: instruction byte, length field, terminator, and
\* what follows.
RawFrame(instr, d, v, term, rest) == <<instr>> \o Field(d, v) \o <<term>> \o rest

\* A 33-byte trailer that does not start with 0x3D.
BadTrailer == <<0>> \o Digest(File3)

\* What a peer may put on the stream: length fields of 1, 14, 15, 16 and 17
\* digits before either terminator, a length field with a letter in it, a
\* length above the ceiling, frames that end before their payload does, a
\* file with a trailer that is no hash frame, a lone hash frame.
RawFrames ==
    {RawFrame(INSTR_MSG, 1, 2, NEWLINE, TextHi),
     RawFrame(INSTR_MSG, 14, 2, SPACE, TextHi),
     RawFrame(INSTR_MSG, 15, 2, NEWLINE, TextHi),
     RawFrame(INSTR_MSG, 16, 2, NEWLINE, TextHi),
     RawFrame(INSTR_FILE, 14, 3, NEWLINE, File3 \o <<INSTR_HASH>> \o Digest(File3)),
     RawFrame(INSTR_FILE, 15, 3, NEWLINE, File3 \o <<INSTR_HASH>> \o Digest(File3)),
     RawFrame(INSTR_FILE, 17, 3, SPACE, File3 \o <<INSTR_HASH>> \o Digest(File3)),
     <<INSTR_MSG, 50, 120, NEWLINE>> \o TextHi,
     RawFrame(INSTR_MSG, 2, MAX_MSG + 1, NEWLINE, << >>),
     RawFrame(INSTR_MSG, 1, 5, NEWLINE, <<97, 98>>),
     RawFrame(INSTR_FILE, 1, 5, NEWLINE, <<97, 98>>),
     RawFrame(INSTR_FILE, 1, 3, NEWLINE, File3 \o BadTrailer),
     <<INSTR_HASH>> \o Digest(<< >>)}

\* ------------------------------------------------------------ transport

\* read_exact of n bytes from the inbound bytes inb.  eof: a side has shut
\* the stream down, so a short read ends in UnexpectedEof instead of waiting.
ReadExact(inb, n, eof) ==
    IF Len(inb) >= n
    THEN [st |-> "ok", data |-> Take(inb, n), rest |-> Drop(inb, n)]
    ELSE IF eof
    THEN [st |-> "eof", data |-> << >>, rest |-> << >>]
    ELSE [st |-> "blocked", data |-> << >>, rest |-> inb]

\* Whether a write_all on the stream of side s can succeed.  It does while
\* neither side has shut the stream down, and fails after s's own shutdown
\* (broken pipe).  After the peer's shutdown both happen: the bytes are
\* taken by the local send buffer, or the peer's reset has already arrived.
WriteOutcomes(sh, s) ==
    IF sh[s] THEN {FALSE}
    ELSE IF sh[Peer(s)] THEN {TRUE, FALSE}
    ELSE {TRUE}

\* A read on the stream of side s ends in end-of-stream, instead of waiting,
\* once s has shut the stream down or the peer has and its bytes are used up.
AtEof(sh, s) == sh[s] \/ sh[Peer(s)]

\* What side s can still read: nothing after its own shutdown.
Inbound(w, sh, s) == IF sh[s] THEN << >> ELSE w[s]

\* ------------------------------------------------------------ read_once

\* The result of one engine call: what it returned ("blocked": it has not
\* returned, the caller waits inside it), the inbound bytes it left, the
\* bytes it wrote, the callbacks it fired in order, the instruction byte it
\* processed and where that byte came from, the bytes it wrote to the
\* transfer file, and the pushback queue it leaves.  failed: a read or a
\* write of the transport failed inside the call.
Res(ret, rest, out, ev, instr, from, file, q) ==
    [ret |-> ret, rest |-> rest, out |-> out, ev |-> ev, instr |-> instr,
     from |-> from, file |-> file, q |-> q, failed |-> FALSE]

\* The result r of a call inside which a transport read or write failed.
Failing(r) == [r EXCEPT !.failed = TRUE]

\* The Err results of the engine's calls.
IsErr(ret) ==
    ret \in {"Err(io)", "Err(Other)", "Err(NotConnected)", "Err(InvalidData)"}

BlockedRes(inb, q) == Res("blocked", inb, << >>, << >>, NoByte, "none", << >>, q)

IsDigit(ch) == ch >= 48 /\ ch <= 57

IsTerminator(ch) == ch = NEWLINE \/ ch = SPACE

\* A cap test that lets the length loop run twice as long.
CapReachedLate(j) == j >= 2 * LEN_CAP

\* if j >= 16 { break; }
CapReached(j) == j >= LEN_CAP

\* The length loop of read_once: j counts iterations from 1, n is n_bytes,
\* k the bytes consumed so far.  An iteration whose next() yields no byte
\* (end of stream) consumes nothing and still counts.  failed: a next() of
\* the loop yielded no byte.
RECURSIVE LenLoop(_, _, _, _, _)
LenLoop(inb, eof, j, n, k) ==
    IF k < Len(inb)
    THEN LET ch == inb[k + 1] IN
         IF IsTerminator(ch)
         THEN [st |-> "ok", skip |-> FALSE, n |-> n, k |-> k + 1, failed |-> FALSE]
         ELSE IF IsDigit(ch)
         THEN IF CapReached(j + 1)
              THEN [st |-> "ok", skip |-> TRUE, n |-> n * 10 + (ch - 48),
                    k |-> k + 1, failed |-> FALSE]
              ELSE LenLoop(inb, eof, j + 1, n * 10 + (ch - 48), k + 1)
         ELSE [st |-> "ok", skip |-> TRUE, n |-> n, k |-> k + 1, failed |-> FALSE]
    ELSE IF eof
    THEN IF CapReached(j + 1)
         THEN [st |-> "ok", skip |-> TRUE, n |-> n, k |-> k, failed |-> TRUE]
         ELSE LenLoop(inb, eof, j + 1, n, k)
    ELSE [st |-> "blocked", skip |-> TRUE, n |-> n, k |-> k, failed |-> FALSE]

ParseLength(inb, eof) == LenLoop(inb, eof, 1, 0, 0)

\* min(n_bytes, 1024): the size of the next read_exact of the file loop.
ChunkLen(n) == Min(n, CHUNK)

\* The file loop of read_once: read_exact chunk after chunk until n_bytes
\* is 0 or a read fails.  got: the payload read so far; chunks: how many
\* chunks were read.
RECURSIVE FileLoop(_, _, _, _, _)
FileLoop(inb, eof, n, got, chunks) ==
    LET r == ReadExact(inb, ChunkLen(n), eof) IN
    IF r.st = "blocked"
    THEN [st |-> "blocked", rest |-> inb, got |-> got, chunks |-> chunks]
    ELSE IF r.st = "eof"
    THEN [st |-> "failed", rest |-> r.rest, got |-> got, chunks |-> chunks]
    ELSE IF n - ChunkLen(n) = 0
    THEN [st |-> "ok", rest |-> r.rest, got |-> got \o r.data, chunks |-> chunks + 1]
    ELSE FileLoop(r.rest, eof, n - ChunkLen(n), got \o r.data, chunks + 1)

\* A ceiling check that turns away a message of exactly the ceiling's length.
WithinCeilingStrict(n) == n < MAX_MSG

\* n_bytes <= 1024 * 1024
WithinCeiling(n) == n <= MAX_MSG

\* A hash frame whose digest is taken from a hasher that was fed nothing.
HashFrameOfNothing(hashed) == <<INSTR_HASH>> \o Digest(<< >>)

\* vec![61] followed by hasher.finalize() over the bytes fed to the hasher.
HashFrame(hashed) == <<INSTR_HASH>> \o Digest(hashed)

\* One file_failed event per failed write of the transfer file.
RECURSIVE WriteFailures(_)
WriteFailures(chunks) ==
    IF chunks = 0 THEN << >>
    ELSE <<Ev("file_failed", 0, TransferName, << >>)>> \o WriteFailures(chunks - 1)

\* A transfer file that keeps only the first chunk written to it.
SpooledFirstChunk(fs, got) ==
    IF fs = "ok" THEN Take(got, Min(Len(got), CHUNK)) ELSE << >>

\* The content of the transfer file after the file loop read got: every
\* chunk is written as it arrives, unless the file system refuses.
Spooled(fs, got) == IF fs = "ok" THEN got ELSE << >>

\* The writes of the transfer file that fail: every write of a non-empty
\* chunk on a file system that refuses writes (write_all of no bytes
\* succeeds without a write).
FailedWrites(fs, n, chunks) == IF fs = "nowrite" /\ n > 0 THEN chunks ELSE 0

\* A hasher that is fed only the chunks the transfer file took.
HashedIfSpooled(fs, got) == IF fs = "ok" THEN got ELSE << >>

\* hasher.update(&buf[..n]) for every chunk read, whatever became of the
\* write of the transfer file.
Hashed(fs, got) == got

\* The file branch of read_once, after file_incoming accepted n bytes.
\* fs: what the file system does with the transfer file.
FileBranch(inb, eof, n, fs) ==
    LET opened == IF fs = "nocreate"
                  THEN <<Ev("file_failed", 0, TransferName, << >>)>>
                  ELSE << >>
        l == FileLoop(inb, eof, n, << >>, 0)
        t == ReadExact(l.rest, HASH_LEN + 1, eof)
    IN  IF l.st = "blocked" \/ t.st = "blocked"
        THEN [st |-> "blocked", rest |-> inb, ev |-> << >>, hashed |-> << >>,
              file |-> << >>, failed |-> FALSE]
        ELSE [st |-> "ok",
              failed |-> (l.st = "failed" \/ t.st = "eof"),
              rest |-> t.rest,
              ev |-> opened
                     \o WriteFailures(FailedWrites(fs, n, l.chunks))
                     \o <<Ev("file_complete", 0, TransferName, << >>)>>
                     \o (IF t.st = "ok"
                         THEN <<Ev("file_hash_by_peer", 0, TransferName,
                                   Drop(t.data, 1))>>
                         ELSE << >>),
              hashed |-> Hashed(fs, l.got),
              file |-> Spooled(fs, l.got)]

\* A payload_too_large that is never fired.
TooLargeUnreported(n) == << >>

\* payload_too_large(n_bytes)
TooLarge(n) == <<Ev("payload_too_large", n, "", << >>)>>

\* The message branch of read_once for an announced length n.
MessageBranch(inb, eof, n) ==
    IF WithinCeiling(n)
    THEN LET r == ReadExact(inb, n, eof) IN
         IF r.st = "blocked"
         THEN [st |-> "blocked", rest |-> inb, ev |-> << >>, hashed |-> << >>,
               failed |-> FALSE]
         ELSE IF r.st = "ok"
         THEN [st |-> "ok", rest |-> r.rest,
               ev |-> <<Ev("msg_new", 0, "", Lossy(r.data))>>, hashed |-> r.data,
               failed |-> FALSE]
         ELSE [st |-> "ok", rest |-> r.rest, ev |-> << >>, hashed |-> << >>,
               failed |-> TRUE]
    ELSE [st |-> "ok", rest |-> inb, ev |-> TooLarge(n), hashed |-> << >>,
          failed |-> FALSE]

\* A skip decision that ignores what file_incoming answered.
SkippedIgnoringAnswer(lenSkip, isFile, accept) == lenSkip

\* Whether read_once skips the payload: the length did not parse, or it is
\* a file and file_incoming declined.
Skipped(lenSkip, isFile, accept) == lenSkip \/ (isFile /\ ~accept)

\* The queue read_once leaves: it copies the byte out of self.queue and
\* never writes the field.
QueueAfterRead(q) == q

\* read_once after the instruction byte instr (33 or 35) is in hand: the
\* length, the payload, the hash frame.  inb: inbound bytes after the
\* instruction byte; canWrite: whether write_all succeeds; accept: what
\* file_incoming returns.
Frame(instr, from, q, inb, eof, canWrite, accept, fs) ==
    LET isFile == instr = INSTR_FILE
        len == ParseLength(inb, eof)
        afterLen == Drop(inb, len.k)
        asked == IF ~len.skip /\ isFile
                 THEN <<Ev("file_incoming", len.n, IF accept THEN "accept" ELSE "reject", << >>)>>
                 ELSE << >>
        skip == Skipped(len.skip, isFile, accept)
        body == IF skip
                THEN [st |-> "ok", rest |-> afterLen, ev |-> << >>,
                      hashed |-> << >>, file |-> << >>, failed |-> FALSE]
                ELSE IF isFile
                THEN FileBranch(afterLen, eof, len.n, fs)
                ELSE MessageBranch(afterLen, eof, len.n) @@ [file |-> << >>]
        filen == IF isFile /\ ~skip THEN TransferName ELSE ""
    IN  IF len.st = "blocked" \/ body.st = "blocked"
        THEN BlockedRes(inb, q)
        ELSE IF ~canWrite
        THEN Failing(Res("panic", body.rest, << >>, asked \o body.ev, instr, from,
                         body.file, QueueAfterRead(q)))
        ELSE [Res("Ok(true)", body.rest, HashFrame(body.hashed),
                  asked \o body.ev
                    \o (IF isFile
                        THEN <<Ev("file_our_hash", 0, filen, Digest(body.hashed))>>
                        ELSE << >>),
                  instr, from, body.file, QueueAfterRead(q))
              EXCEPT !.failed = len.failed \/ body.failed]

IsPayloadInstr(instr) == instr = INSTR_MSG \/ instr = INSTR_FILE

\* What read_once does with the instruction byte instr.
Dispatch(instr, from, q, inb, eof, canWrite, accept, fs) ==
    IF IsPayloadInstr(instr)
    THEN Frame(instr, from, q, inb, eof, canWrite, accept, fs)
    ELSE Res("Ok(false)", inb, << >>, <<Ev("invalid_instr", instr, "", << >>)>>,
             instr, from, << >>, QueueAfterRead(q))

\* read_once.  q: self.queue; inb: the inbound bytes; nonblocking: the mode
\* of the stream when the instruction byte is read.
ReadOnceRes(q, inb, eof, nonblocking, canWrite, accept, fs) ==
    IF q # NoByte
    THEN Dispatch(q, "queue", q, inb, eof, canWrite, accept, fs)
    ELSE IF Len(inb) > 0
    THEN Dispatch(Head(inb), "transport", q, Tail(inb), eof, canWrite, accept, fs)
    ELSE IF eof
    THEN Failing(Res("Err(NotConnected)", inb, << >>, << >>, NoByte, "none",
                     << >>, q))
    ELSE IF nonblocking
    THEN Res("Ok(false)", inb, << >>, << >>, NoByte, "none", << >>, q)
    ELSE BlockedRes(inb, q)

\* ------------------------------------------------------------ read_maybe

\* read_maybe: set_nonblocking(true), read_once, set_nonblocking(false).
ReadMaybeRes(q, inb, eof, canWrite, accept, fs) ==
    ReadOnceRes(q, inb, eof, TRUE, canWrite, accept, fs)

\* The mode (TRUE: non-blocking) read_once leaves on a stream it found in
\* mode: it calls set_nonblocking(false) once a 0x21 or 0x23 is in hand and
\* does not touch the mode on its other paths.
ModeAfterReadOnce(mode, r) ==
    IF r.instr # NoByte /\ IsPayloadInstr(r.instr) THEN FALSE ELSE mode

\* A read_maybe that does not switch the stream back.
ModeLeftByReadOnce(mode, r) == ModeAfterReadOnce(TRUE, r)

\* The mode read_maybe leaves: set_nonblocking(false) after read_once has
\* returned; a read_once that panics never returns to it.
ModeAfterReadMaybe(mode, r) ==
    IF r.ret = "panic" THEN ModeAfterReadOnce(TRUE, r) ELSE FALSE

\* The mode expect_hash leaves: it starts with set_nonblocking(false).
ModeAfterExpectHash(mode, r) == FALSE

\* ------------------------------------------------------------ send

\* format!("!{}\n", len) and format!("#{}\n", len).
Header(instr, n) == <<instr>> \o Dec(n) \o <<NEWLINE>>

\* send(msg): the header, the text, then hash_of_sent.  The first failing
\* write_all returns its error.
SendRes(m, inb, q, canWrite) ==
    IF canWrite
    THEN Res("Ok", inb, Header(INSTR_MSG, Len(m)) \o m,
             <<Ev("hash_of_sent", 0, "", Digest(m))>>, NoByte, "none", << >>, q)
    ELSE Failing(Res("Err(io)", inb, << >>, << >>, NoByte, "none", << >>, q))

\* The read loop of send_stream: chunks of at most 1024 bytes until the
\* reader is at its end or a read of it fails; sent: the bytes written.
RECURSIVE StreamLoop(_, _, _)
StreamLoop(data, good, sent) ==
    IF Len(sent) >= good \/ Len(sent) >= Len(data)
    THEN sent
    ELSE StreamLoop(data, good,
                    sent \o SubSeq(data, Len(sent) + 1,
                                   Min(Min(Len(sent) + CHUNK, good), Len(data))))

\* send_stream(stream, len): the header, the chunks, the hash frame of the
\* bytes streamed, then hash_of_sent.
SendStreamRes(st, inb, q, canWrite) ==
    IF canWrite
    THEN LET sent == StreamLoop(st.data, st.good, << >>) IN
         Res("Ok", inb, Header(INSTR_FILE, st.len) \o sent \o HashFrame(sent),
             <<Ev("hash_of_sent", 0, "", Digest(sent))>>, NoByte, "none", << >>, q)
    ELSE Failing(Res("Err(io)", inb, << >>, << >>, NoByte, "none", << >>, q))

\* ------------------------------------------------------------ expect_hash

\* An expect_hash that drops the non-hash byte instead of queueing it.
PushbackDropped(q, b) == q

\* An expect_hash that queues 0x3D whatever byte it read.
PushbackOfHashByte(q, b) == INSTR_HASH

\* The queue expect_hash leaves after reading the non-hash byte b.
Pushback(q, b) == b

\* expect_hash: one byte; '=' is followed by the digest, any other byte goes
\* to the queue.  A failed first read leaves the queue alone.
ExpectHashRes(q, inb, eof) ==
    LET first == ReadExact(inb, 1, eof) IN
    IF first.st = "blocked"
    THEN BlockedRes(inb, q)
    ELSE IF first.st = "eof"
    THEN Failing(Res("Err(Other)", first.rest, << >>, << >>, NoByte, "none",
                     << >>, q))
    ELSE IF first.data[1] = INSTR_HASH
    THEN LET d == ReadExact(first.rest, HASH_LEN, eof) IN
         IF d.st = "blocked"
         THEN BlockedRes(inb, q)
         ELSE IF d.st = "eof"
         THEN Failing(Res("Err(io)", d.rest, << >>, << >>, NoByte, "none",
                          << >>, q))
         ELSE Res("Ok", d.rest, << >>, <<Ev("hash_rcvd", 0, "", d.data)>>,
                  NoByte, "none", << >>, q)
    ELSE Res("Err(Other)", first.rest, << >>, << >>, NoByte, "none", << >>,
             Pushback(q, first.data[1]))

\* ------------------------------------------------------------ handshake

\* expect_handshake: read_exact of 8 bytes, compared with b"/talkers".
ExpectHandshakeRes(q, inb, eof) ==
    LET r == ReadExact(inb, Len(Handshake), eof) IN
    IF r.st = "blocked"
    THEN BlockedRes(inb, q)
    ELSE IF r.st = "eof"
    THEN Failing(Res("Err(io)", r.rest, << >>, << >>, NoByte, "none", << >>, q))
    ELSE IF r.data = Handshake
    THEN Res("Ok", r.rest, << >>, << >>, NoByte, "none", << >>, q)
    ELSE Res("Err(InvalidData)", r.rest, << >>, << >>, NoByte, "none", << >>, q)

\* A perform_handshake that writes one byte too few.
PerformHandshakeShort(q, inb, canWrite) ==
    IF canWrite
    THEN Res("Ok", inb, Take(Handshake, Len(Handshake) - 1), << >>, NoByte,
             "none", << >>, q)
    ELSE Failing(Res("Err(io)", inb, << >>, << >>, NoByte, "none", << >>, q))

\* perform_handshake: write_all(b"/talkers").
PerformHandshakeRes(q, inb, canWrite) ==
    IF canWrite
    THEN Res("Ok", inb, Handshake, << >>, NoByte, "none", << >>, q)
    ELSE Failing(Res("Err(io)", inb, << >>, << >>, NoByte, "none", << >>, q))

\* ------------------------------------------------------------ close

\* The closed flag close leaves when it did not return early: it is set in
\* the branch that fires chat_close, and only there.
ClosedAfterClose(wasClosed, hasCallback) == wasClosed \/ hasCallback

\* What shutdown(Shutdown::Both) can return.  On a stream this side has
\* already shut down the result is the platform's: Ok on some, NotConnected
\* on others.
ShutdownResults(alreadyShut) ==
    IF alreadyShut THEN {"Ok", "Err(NotConnected)"} ELSE {"Ok"}

\* ------------------------------------------------------------ state

VARIABLES
    wire,          \* wire[s]: bytes written by the peer of s, not yet read by s
    shut,          \* shut[s]: s has called shutdown(Both) on the stream
    queue,         \* queue[s]: self.queue, NoByte for None
    closed,        \* closed[s]: self.closed
    nonblocking,   \* nonblocking[s]: the mode of the stream of s
    hasChatClose,  \* hasChatClose[s]: self.chat_close is Some
    panicked,      \* panicked[s]: a call on s has panicked
    log,           \* the calls that have returned, oldest first
    hs,            \* hs[s]: where new_connection of s stands
    hsRet,         \* hsRet[s]: what the handshake calls of s returned
    poller,        \* poller[s]: where the polling thread of s stands
    cmd,           \* cmd[s]: where the command loop of s stands
    lock,          \* lock[s]: who is parked inside a call holding the mutex
    sends          \* sends[s]: messages the command loop of s has sent

engineVars == <<wire, shut, queue, closed, nonblocking, hasChatClose, panicked>>

appVars == <<hs, hsRet, poller, cmd, lock, sends>>

vars == <<engineVars, log, appVars>>

\* One returned call.  arg: the text or the reader's content; n: the length
\* passed to send_stream, good: the bytes the reader yields before it fails;
\* qb and q: the queue before and after; nread: bytes taken from the
\* transport; closed: the closed flag after; nb: the mode of the stream
\* after (TRUE: non-blocking); failed: a transport read or write failed
\* inside the call.
Entry(s, op, arg, n, good, r, nread, isClosed, nb) ==
    [side |-> s, op |-> op, arg |-> arg, n |-> n, good |-> good,
     ret |-> r.ret, ev |-> r.ev,
     nread |-> nread, out |-> r.out, instr |-> r.instr, from |-> r.from,
     file |-> r.file, qb |-> queue[s], q |-> r.q, closed |-> isClosed,
     nb |-> nb, failed |-> r.failed]

\* Talker::new on both ends of a fresh connection.  The owner of A has set
\* chat_close before the first call; B keeps the None of Talker::new.
Init ==
    /\ wire = [s \in Sides |-> << >>]
    /\ shut = [s \in Sides |-> FALSE]
    /\ queue = [s \in Sides |-> NoByte]
    /\ closed = [s \in Sides |-> FALSE]
    /\ nonblocking = [s \in Sides |-> FALSE]
    /\ hasChatClose = [s \in Sides |-> s = "A"]
    /\ panicked = [s \in Sides |-> FALSE]
    /\ log = << >>
    /\ hs = [s \in Sides |-> "none"]
    /\ hsRet = [s \in Sides |-> << >>]
    /\ poller = [s \in Sides |-> "none"]
    /\ cmd = [s \in Sides |-> "none"]
    /\ lock = [s \in Sides |-> "free"]
    /\ sends = [s \in Sides |-> 0]

\* A caller that panicked inside a call on s makes no further call.
CanCall(s) == ~panicked[s]

\* The effect on the engines of a call on s that ended with r and left the
\* stream in mode nb: the bytes read and written, the queue, a panic.
Effect(s, r, nb) ==
    /\ r.ret # "blocked"
    /\ wire' = [wire EXCEPT ![s] = r.rest, ![Peer(s)] = @ \o r.out]
    /\ queue' = [queue EXCEPT ![s] = r.q]
    /\ panicked' = [panicked EXCEPT ![s] = r.ret = "panic"]
    /\ nonblocking' = [nonblocking EXCEPT ![s] = nb]

\* A call of op on s returns r, the stream left in mode nb.
Returns(s, op, arg, n, good, r, nb) ==
    /\ Effect(s, r, nb)
    /\ log' = Append(log, Entry(s, op, arg, n, good, r,
                                Len(Inbound(wire, shut, s)) - Len(r.rest),
                                closed[s], nb))
    /\ UNCHANGED <<shut, closed, hasChatClose, appVars>>

Send(s, texts) ==
    /\ CanCall(s)
    /\ \E m \in texts, canWrite \in WriteOutcomes(shut, s) :
         Returns(s, "send", m, 0, 0,
                 SendRes(m, Inbound(wire, shut, s), queue[s], canWrite),
                 nonblocking[s])

SendStream(s, streams) ==
    /\ CanCall(s)
    /\ \E st \in streams, canWrite \in WriteOutcomes(shut, s) :
         Returns(s, "send_stream", st.data, st.len, st.good,
                 SendStreamRes(st, Inbound(wire, shut, s), queue[s], canWrite),
                 nonblocking[s])

ReadOnce(s) ==
    /\ CanCall(s)
    /\ \E accept \in BOOLEAN, fs \in FsOutcomes,
          canWrite \in WriteOutcomes(shut, s) :
         LET r == ReadOnceRes(queue[s], Inbound(wire, shut, s), AtEof(shut, s),
                              nonblocking[s], canWrite, accept, fs)
         IN  Returns(s, "read_once", << >>, 0, 0, r,
                     ModeAfterReadOnce(nonblocking[s], r))

ReadMaybe(s) ==
    /\ CanCall(s)
    /\ \E accept \in BOOLEAN, fs \in FsOutcomes,
          canWrite \in WriteOutcomes(shut, s) :
         LET r == ReadMaybeRes(queue[s], Inbound(wire, shut, s), AtEof(shut, s),
                               canWrite, accept, fs)
         IN  Returns(s, "read_maybe", << >>, 0, 0, r,
                     ModeAfterReadMaybe(nonblocking[s], r))

ExpectHash(s) ==
    /\ CanCall(s)
    /\ LET r == ExpectHashRes(queue[s], Inbound(wire, shut, s), AtEof(shut, s))
       IN  Returns(s, "expect_hash", << >>, 0, 0, r,
                   ModeAfterExpectHash(nonblocking[s], r))

ExpectHandshake(s) ==
    /\ CanCall(s)
    /\ Returns(s, "expect_handshake", << >>, 0, 0,
               ExpectHandshakeRes(queue[s], Inbound(wire, shut, s), AtEof(shut, s)),
               nonblocking[s])

PerformHandshake(s) ==
    /\ CanCall(s)
    /\ \E canWrite \in WriteOutcomes(shut, s) :
         Returns(s, "perform_handshake", << >>, 0, 0,
                 PerformHandshakeRes(queue[s], Inbound(wire, shut, s), canWrite),
                 nonblocking[s])

\* close: the early return of a closed engine, else chat_close (if set) and
\* the closed flag, then shutdown, whose result close returns.
CloseEffect(s, ret) ==
    IF closed[s]
    THEN /\ ret = "Ok"
         /\ UNCHANGED <<wire, shut, closed>>
    ELSE /\ ret \in ShutdownResults(shut[s])
         /\ closed' = [closed EXCEPT
                         ![s] = ClosedAfterClose(closed[s], hasChatClose[s])]
         /\ shut' = [shut EXCEPT ![s] = TRUE]
         /\ wire' = [wire EXCEPT ![s] = << >>]

Close(s) ==
    /\ CanCall(s)
    /\ \E ret \in {"Ok", "Err(NotConnected)"} :
         /\ CloseEffect(s, ret)
         /\ log' = Append(log, Entry(s, "close", << >>, 0, 0,
                     Res(ret, << >>, << >>,
                         IF ~closed[s] /\ hasChatClose[s]
                         THEN <<Ev("chat_close", 0, "", << >>)>> ELSE << >>,
                         NoByte, "none", << >>, queue[s]),
                     0, closed'[s], nonblocking[s]))
    /\ UNCHANGED <<queue, nonblocking, hasChatClose, panicked, appVars>>

Next ==
    \E s \in Sides :
        \/ Len(log) < MaxOps /\ Send(s, SmallTexts)
        \/ Len(log) < MaxOps /\ SendStream(s, SmallStreams)
        \/ Len(log) < MaxOps /\ ReadOnce(s)
        \/ Len(log) < MaxOps /\ ReadMaybe(s)
        \/ Len(log) < MaxOps /\ ExpectHash(s)
        \/ Len(log) < MaxOps /\ ExpectHandshake(s)
        \/ Len(log) < MaxOps /\ PerformHandshake(s)
        \/ Len(log) < MaxOps /\ Close(s)

Spec == Init /\ [][Next]_vars

\* ------------------------------------------------------------ transfers

\* A sends every text and every stream of the input sets and awaits the
\* acknowledgements; B receives, and sends a text of its own in between.
NextTransfer ==
    \/ Len(log) < MaxTransferOps /\ Send("A", Texts)
    \/ Len(log) < MaxTransferOps /\ SendStream("A", StreamInputs)
    \/ Len(log) < MaxTransferOps /\ ExpectHash("A")
    \/ Len(log) < MaxTransferOps /\ ReadOnce("A")
    \/ Len(log) < MaxTransferOps /\ ReadOnce("B")
    \/ Len(log) < MaxTransferOps /\ ReadMaybe("B")
    \/ Len(log) < MaxTransferOps /\ Send("B", SmallTexts)
    \/ Len(log) < MaxTransferOps /\ ExpectHash("B")

SpecTransfer == Init /\ [][NextTransfer]_vars

\* ------------------------------------------------------------ frames from any peer

\* The program at the other end of the stream of Peer(s) writes the bytes
\* of a frame on it.
PeerWrites(s, frames) ==
    /\ ~shut[s]
    /\ \E f \in frames :
         Returns(s, "write", f, 0, 0,
                 Res("Ok", Inbound(wire, shut, s), f, << >>, NoByte, "none",
                     << >>, queue[s]),
                 nonblocking[s])

\* A writes frames and may shut the stream down at any point; B reads.
NextWire ==
    \/ Len(log) < MaxWireOps /\ PeerWrites("A", RawFrames)
    \/ Len(log) < MaxWireOps /\ Close("A")
    \/ Len(log) < MaxWireOps /\ ReadOnce("B")
    \/ Len(log) < MaxWireOps /\ ReadMaybe("B")

SpecWire == Init /\ [][NextWire]_vars

\* ------------------------------------------------------------ crossing messages

\* The messages side s has sent.
Sent(s) == Cardinality({i \in 1..Len(log) : log[i].side = s /\ log[i].op = "send"})

\* Both sides send a message, short or above the ceiling, before either has
\* read the other's; both read with read_once and await acknowledgements.
NextCross ==
    \/ Len(log) < MaxCrossOps /\ Sent("A") < MaxCrossSends
         /\ Send("A", {TextHi, TextOver})
    \/ Len(log) < MaxCrossOps /\ Sent("B") < MaxCrossSends
         /\ Send("B", {TextY, TextOver})
    \/ Len(log) < MaxCrossOps /\ ReadOnce("A")
    \/ Len(log) < MaxCrossOps /\ ReadOnce("B")
    \/ Len(log) < MaxCrossOps /\ ExpectHash("A")
    \/ Len(log) < MaxCrossOps /\ ExpectHash("B")

SpecCross == Init /\ [][NextCross]_vars

\* ------------------------------------------------------------ the chat application

\* A opened the connection (new_connection with inited_by_us), B accepted it.
Initiator == "A"

Acceptor == "B"

\* Both ends have wrapped their stream in Talker::new and are at the first
\* handshake call of new_connection.
InitApp ==
    /\ wire = [s \in Sides |-> << >>]
    /\ shut = [s \in Sides |-> FALSE]
    /\ queue = [s \in Sides |-> NoByte]
    /\ closed = [s \in Sides |-> FALSE]
    /\ nonblocking = [s \in Sides |-> FALSE]
    /\ hasChatClose = [s \in Sides |-> FALSE]
    /\ panicked = [s \in Sides |-> FALSE]
    /\ log = << >>
    /\ hs = [s \in Sides |-> IF s = Initiator THEN "perform" ELSE "expect"]
    /\ hsRet = [s \in Sides |-> << >>]
    /\ poller = [s \in Sides |-> "none"]
    /\ cmd = [s \in Sides |-> "none"]
    /\ lock = [s \in Sides |-> "free"]
    /\ sends = [s \in Sides |-> 0]

\* The mutex of the Talker of s can be taken: nobody is parked inside a
\* call, and no thread has panicked while holding it.
LockFree(s) == lock[s] = "free" /\ ~panicked[s]

\* A handshake call of new_connection on s returned r.  onOk: where
\* new_connection goes after success ("done": the connection is
\* established: set_example_handlers, the polling thread is spawned, the
\* command loop can address the chat).  After a failure new_connection
\* returns and the Talker, with its stream, is dropped.
HsReturns(s, r, onOk) ==
    /\ Effect(s, r, nonblocking[s])
    /\ hsRet' = [hsRet EXCEPT ![s] = Append(@, r.ret)]
    /\ hs' = [hs EXCEPT ![s] = IF r.ret = "Ok" THEN onOk ELSE "failed"]
    /\ LET established == r.ret = "Ok" /\ onOk = "done" IN
         /\ hasChatClose' = [hasChatClose EXCEPT ![s] = @ \/ established]
         /\ poller' = [poller EXCEPT ![s] = IF established THEN "loop" ELSE @]
         /\ cmd' = [cmd EXCEPT ![s] = IF established THEN "idle" ELSE @]
    /\ shut' = [shut EXCEPT ![s] = @ \/ r.ret # "Ok"]
    /\ UNCHANGED <<closed, log, lock, sends>>

HsPerform(s) ==
    /\ hs[s] = "perform"
    /\ \E canWrite \in WriteOutcomes(shut, s) :
         HsReturns(s, PerformHandshakeRes(queue[s], Inbound(wire, shut, s),
                                          canWrite),
                   IF s = Initiator THEN "expect" ELSE "done")

HsExpect(s) ==
    /\ hs[s] = "expect"
    /\ HsReturns(s, ExpectHandshakeRes(queue[s], Inbound(wire, shut, s),
                                       AtEof(shut, s)),
                 IF s = Initiator THEN "done" ELSE "perform")

\* One turn of the polling thread: read_maybe under the mutex; an Err ends
\* the loop.  The example handlers accept every file.  A read_maybe that
\* waits inside a frame keeps the mutex until it returns.
Poll(s) ==
    /\ poller[s] = "loop"
    /\ ~panicked[s]
    /\ lock[s] \in {"free", "poller"}
    /\ \E fs \in FsOutcomes, canWrite \in WriteOutcomes(shut, s) :
         \E r \in {ReadMaybeRes(queue[s], Inbound(wire, shut, s), AtEof(shut, s),
                                 canWrite, TRUE, fs)} :
             IF r.ret = "blocked"
             THEN /\ lock' = [lock EXCEPT ![s] = "poller"]
                  /\ UNCHANGED <<engineVars, poller>>
             ELSE /\ Len(wire[Peer(s)]) + Len(r.out) <= MaxBacklog
                  /\ Effect(s, r, ModeAfterReadMaybe(nonblocking[s], r))
                  /\ lock' = [lock EXCEPT ![s] = "free"]
                  /\ poller' = [poller EXCEPT
                                  ![s] = IF IsErr(r.ret) THEN "closing"
                                         ELSE IF r.ret = "panic" THEN "dead"
                                         ELSE "loop"]
                  /\ UNCHANGED <<shut, closed, hasChatClose>>
    /\ UNCHANGED <<log, hs, hsRet, cmd, sends>>

\* The polling thread, out of its loop, closes the engine.
PollerClose(s) ==
    /\ poller[s] = "closing"
    /\ LockFree(s)
    /\ \E ret \in {"Ok", "Err(NotConnected)"} : CloseEffect(s, ret)
    /\ poller' = [poller EXCEPT ![s] = "exited"]
    /\ UNCHANGED <<queue, nonblocking, hasChatClose, panicked, log, hs, hsRet,
                   cmd, lock, sends>>

\* The command loop's send, first half: send under the mutex, which is
\* released when the call returns.
AppSend(s) ==
    /\ cmd[s] = "idle"
    /\ LockFree(s)
    /\ sends[s] < MaxAppSends
    /\ \E m \in SmallTexts, canWrite \in WriteOutcomes(shut, s) :
         LET r == SendRes(m, Inbound(wire, shut, s), queue[s], canWrite)
         IN  /\ Effect(s, r, nonblocking[s])
             /\ cmd' = [cmd EXCEPT ![s] = IF r.ret = "Ok" THEN "sent" ELSE "failed"]
    /\ sends' = [sends EXCEPT ![s] = @ + 1]
    /\ UNCHANGED <<shut, closed, hasChatClose, log, hs, hsRet, poller, lock>>

\* The command loop's send, second half: the mutex is taken again and
\* expect_hash waits under it for the first byte.
AppExpectHash(s) ==
    /\ cmd[s] = "sent"
    /\ ~panicked[s]
    /\ lock[s] \in {"free", "cmd"}
    /\ \E r \in {ExpectHashRes(queue[s], Inbound(wire, shut, s), AtEof(shut, s))} :
           IF r.ret = "blocked"
           THEN /\ lock' = [lock EXCEPT ![s] = "cmd"]
                /\ UNCHANGED <<engineVars, cmd>>
           ELSE /\ Effect(s, r, ModeAfterExpectHash(nonblocking[s], r))
                /\ lock' = [lock EXCEPT ![s] = "free"]
                /\ cmd' = [cmd EXCEPT ![s] = IF r.ret = "Ok" THEN "idle" ELSE "failed"]
                /\ UNCHANGED <<shut, closed, hasChatClose>>
    /\ UNCHANGED <<log, hs, hsRet, poller, sends>>

\* terminate after a send that returned an error.
Terminate(s) ==
    /\ cmd[s] = "failed"
    /\ LockFree(s)
    /\ \E ret \in {"Ok", "Err(NotConnected)"} : CloseEffect(s, ret)
    /\ cmd' = [cmd EXCEPT ![s] = "idle"]
    /\ UNCHANGED <<queue, nonblocking, hasChatClose, panicked, log, hs, hsRet,
                   poller, lock, sends>>

\* terminate on the user's /close.
UserClose(s) ==
    /\ cmd[s] = "idle"
    /\ LockFree(s)
    /\ \E ret \in {"Ok", "Err(NotConnected)"} : CloseEffect(s, ret)
    /\ UNCHANGED <<queue, nonblocking, hasChatClose, panicked, log, appVars>>

NextApp ==
    \E s \in Sides :
        \/ HsPerform(s)
        \/ HsExpect(s)
        \/ Poll(s)
        \/ PollerClose(s)
        \/ AppSend(s)
        \/ AppExpectHash(s)
        \/ Terminate(s)
        \/ UserClose(s)

\* new_connection runs on: a handshake call that can return does return.
\* Nothing is assumed of the polling thread, the command loop or the user.
FairApp ==
    \A s \in Sides : WF_vars(HsPerform(s)) /\ WF_vars(HsExpect(s))

SpecApp == InitApp /\ [][NextApp]_vars /\ FairApp

\* Fair scheduling of the three threads that use the engine of s: the one
\* inside new_connection goes on with its handshake calls; the polling
\* thread takes its turn (its sleep of 125 ms ends, the mutex is handed to
\* it) and closes once it has left its loop; the command loop, inside send,
\* goes on to expect_hash and to terminate.  Nothing is assumed of the user.
FairThreads ==
    \A s \in Sides :
        /\ WF_vars(HsPerform(s) \/ HsExpect(s))
        /\ WF_vars(Poll(s) \/ PollerClose(s))
        /\ WF_vars(AppExpectHash(s) \/ Terminate(s))

SpecAppFair == InitApp /\ [][NextApp]_vars /\ FairThreads

\* ------------------------------------------------------------ reading the log

\* The bytes side s wrote in the calls before entry i.
RECURSIVE WritePos(_, _)
WritePos(s, i) ==
    IF i <= 1 THEN 0
    ELSE WritePos(s, i - 1)
         + (IF log[i - 1].side = s THEN Len(log[i - 1].out) ELSE 0)

\* The bytes side s took from the transport in the calls before entry i.
RECURSIVE ReadPos(_, _)
ReadPos(s, i) ==
    IF i <= 1 THEN 0
    ELSE ReadPos(s, i - 1)
         + (IF log[i - 1].side = s THEN log[i - 1].nread ELSE 0)

\* Everything side s wrote in the calls up to entry i.
RECURSIVE Written(_, _)
Written(s, i) ==
    IF i = 0 THEN << >>
    ELSE Written(s, i - 1) \o (IF log[i].side = s THEN log[i].out ELSE << >>)

IsRead(e) == e.op = "read_once" \/ e.op = "read_maybe"

\* Entry j is a read_once (alone or inside read_maybe) that took its
\* instruction byte from the transport, at the first byte that entry i of
\* the peer wrote.
Receives(j, i) ==
    /\ i < j
    /\ IsRead(log[j])
    /\ log[j].side = Peer(log[i].side)
    /\ log[j].from = "transport"
    /\ ReadPos(log[j].side, j) = WritePos(log[i].side, i)

\* Entry j is an expect_hash that started reading at the first byte that
\* entry k of the peer wrote.
AwaitsAckOf(j, k) ==
    /\ k < j
    /\ log[j].op = "expect_hash"
    /\ log[j].side = Peer(log[k].side)
    /\ log[j].nread > 0
    /\ ReadPos(log[j].side, j) = WritePos(log[k].side, k)

\* The byte arguments of the callbacks named cb that entry e fired.
Fired(e, cb) == SelectSeq(e.ev, LAMBDA x : x.cb = cb)

Digests(e, cb) == {Fired(e, cb)[x].bytes : x \in 1..Len(Fired(e, cb))}

Entries == 1..Len(log)

\* ------------------------------------------------------------ claims

\* C1 (handshake symmetry): with the initiator calling perform_handshake
\* then expect_handshake and the acceptor expect_handshake then
\* perform_handshake, under every interleaving no handshake call returns an
\* error and both sides get through both calls: neither waits forever.
C1_HandshakeSymmetry ==
    /\ [](\A s \in Sides :
            /\ hs[s] # "failed"
            /\ \A x \in 1..Len(hsRet[s]) : hsRet[s][x] = "Ok")
    /\ <>(\A s \in Sides : hs[s] = "done" /\ Len(hsRet[s]) = 2)

\* Both sides are through their two handshake calls, all four successful.
C1_Witness ==
    \A s \in Sides : hs[s] = "done" /\ hsRet[s] = <<"Ok", "Ok">>

\* C2 (message round-trip): when a send(m) with Len(m) at most the message
\* ceiling returned success and the peer's read_once, its pushback queue
\* empty, reads the frame that send wrote, that read_once fires msg_new
\* exactly once, with the bytes of m, and returns true.
C2_RoundTrip ==
    \A i \in Entries : \A j \in Entries :
        ( /\ log[i].op = "send" /\ log[i].ret = "Ok"
          /\ Len(log[i].arg) <= MAX_MSG
          /\ Receives(j, i)
          /\ log[j].qb = NoByte )
        => /\ log[j].ret = "Ok(true)"
           /\ Len(Fired(log[j], "msg_new")) = 1
           /\ Digests(log[j], "msg_new") = {log[i].arg}

\* A message of exactly the ceiling's length, with a two-byte character,
\* has been sent and received.
C2_Witness ==
    \E i \in Entries : \E j \in Entries :
        /\ log[i].op = "send" /\ log[i].ret = "Ok"
        /\ log[i].arg = TextCeil /\ Len(TextCeil) = MAX_MSG
        /\ Receives(j, i)
        /\ log[j].qb = NoByte
        /\ log[j].ret = "Ok(true)"

\* C3 as stated (hash law, for every m): when A's send(m) returned success,
\* B's read_once read that frame from the transport, and A's expect_hash
\* then read what that read_once wrote, expect_hash succeeds and the digest
\* of A's hash_of_sent, the digest of A's hash_rcvd and the hash of m are
\* all equal.
C3_HashLawAnyLength ==
    \A i \in Entries : \A k \in Entries : \A j \in Entries :
        ( /\ log[i].op = "send" /\ log[i].ret = "Ok"
          /\ Receives(k, i)
          /\ AwaitsAckOf(j, k) )
        => /\ log[j].ret = "Ok"
           /\ Digests(log[i], "hash_of_sent") = {Digest(log[i].arg)}
           /\ Digests(log[j], "hash_rcvd") = {Digest(log[i].arg)}

\* C3 (hash law, amended): the same for every m whose length is at most
\* the message ceiling.
C3_HashLaw ==
    \A i \in Entries : \A k \in Entries : \A j \in Entries :
        ( /\ log[i].op = "send" /\ log[i].ret = "Ok"
          /\ Len(log[i].arg) <= MAX_MSG
          /\ Receives(k, i)
          /\ AwaitsAckOf(j, k) )
        => /\ log[j].ret = "Ok"
           /\ Digests(log[i], "hash_of_sent") = {Digest(log[i].arg)}
           /\ Digests(log[j], "hash_rcvd") = {Digest(log[i].arg)}

\* A non-empty message was sent, read by the peer and acknowledged to an
\* expect_hash of the sender.
C3_Witness ==
    \E i \in Entries : \E k \in Entries : \E j \in Entries :
        /\ log[i].op = "send" /\ log[i].ret = "Ok"
        /\ log[i].arg = TextHi
        /\ Receives(k, i)
        /\ AwaitsAckOf(j, k)
        /\ log[j].ret = "Ok"

\* Entry i is a send_stream that returned success, whose reader did not
\* fail and whose length argument is the length of the reader's content.
SendsWholeFile(i) ==
    /\ log[i].op = "send_stream" /\ log[i].ret = "Ok"
    /\ log[i].n = Len(log[i].arg)
    /\ log[i].good = Len(log[i].arg)

\* Entry j asked file_incoming and it accepted.
Accepted(j) ==
    \E x \in 1..Len(log[j].ev) :
        log[j].ev[x].cb = "file_incoming" /\ log[j].ev[x].name = "accept"

Declined(j) ==
    \E x \in 1..Len(log[j].ev) :
        log[j].ev[x].cb = "file_incoming" /\ log[j].ev[x].name = "reject"

\* C4 (file integrity): when send_stream sent f with the length of f, the
\* receiver's read_once read that frame from the transport, file_incoming
\* accepted and the transfer file could be created and written,
\* file_our_hash and file_hash_by_peer both carry the hash of f and the
\* transfer file holds exactly f.
C4_FileIntegrity ==
    \A i \in Entries : \A j \in Entries :
        ( /\ SendsWholeFile(i)
          /\ Receives(j, i)
          /\ Accepted(j)
          /\ Fired(log[j], "file_failed") = << >> )
        => /\ log[j].ret = "Ok(true)"
           /\ Len(Fired(log[j], "file_our_hash")) = 1
           /\ Digests(log[j], "file_our_hash") = {Digest(log[i].arg)}
           /\ Len(Fired(log[j], "file_hash_by_peer")) = 1
           /\ Digests(log[j], "file_hash_by_peer") = {Digest(log[i].arg)}
           /\ log[j].file = log[i].arg

\* A file of two whole chunks and one more byte was sent, accepted and
\* spooled.
C4_Witness ==
    \E i \in Entries : \E j \in Entries :
        /\ SendsWholeFile(i)
        /\ log[i].arg = File9 /\ Len(File9) % CHUNK # 0 /\ Len(File9) > CHUNK
        /\ Receives(j, i)
        /\ Accepted(j)
        /\ Fired(log[j], "file_failed") = << >>
        /\ log[j].file = File9

\* Entries i, k, j are the reject-file scenario: a send_stream of a 3-byte
\* reader with length 3, a read_once of the peer that read that frame and
\* whose file_incoming declined, an expect_hash of the sender that read
\* what that read_once left for it.
RejectScenario(i, k, j) ==
    /\ SendsWholeFile(i) /\ log[i].n = 3
    /\ Receives(k, i)
    /\ Declined(k)
    /\ AwaitsAckOf(j, k)

\* C10 as stated (reject-file scenario): B's read_once fires no
\* file_complete and reads none of the payload, and A's expect_hash
\* returns an `other` error and leaves the stray byte in A's queue.
C10_RejectQueuesStrayByte ==
    \A i \in Entries : \A k \in Entries : \A j \in Entries :
        RejectScenario(i, k, j)
        => /\ Fired(log[k], "file_complete") = << >>
           /\ log[k].nread = Len(Header(INSTR_FILE, 3))
           /\ log[j].ret = "Err(Other)"
           /\ log[j].q # NoByte

\* C10 (reject-file scenario, amended): B's read_once fires no
\* file_complete, reads none of the payload and writes the hash frame of the
\* empty input; A's expect_hash consumes that frame, returns success with
\* hash_rcvd carrying the hash of the empty input, and leaves A's queue as
\* it was.
C10_RejectAcksEmptyHash ==
    \A i \in Entries : \A k \in Entries : \A j \in Entries :
        RejectScenario(i, k, j)
        => /\ Fired(log[k], "file_complete") = << >>
           /\ log[k].nread = Len(Header(INSTR_FILE, 3))
           /\ log[k].out = <<INSTR_HASH>> \o Digest(<< >>)
           /\ log[j].ret = "Ok"
           /\ Digests(log[j], "hash_rcvd") = {Digest(<< >>)}
           /\ log[j].q = log[j].qb

\* The reject-file scenario has run to the end of A's expect_hash.
C10_Witness ==
    \E i \in Entries : \E k \in Entries : \E j \in Entries :
        /\ RejectScenario(i, k, j)
        /\ log[i].side = "A" /\ log[i].arg = File3

\* The byte at which entry i started to read the transport.
FirstByteRead(i) ==
    Written(Peer(log[i].side), i)[ReadPos(log[i].side, i) + 1]

\* Entry j is the first read_once (alone or inside read_maybe) of its side
\* after entry i, with no expect_hash of that side in between.
NextReadAfter(j, i) ==
    /\ i < j
    /\ log[j].side = log[i].side
    /\ IsRead(log[j])
    /\ \A x \in Entries :
          (i < x /\ x < j /\ log[x].side = log[i].side)
          => ~IsRead(log[x]) /\ log[x].op # "expect_hash"

\* Entry i is an expect_hash whose first byte read is not 0x3D.
ReadsStrayByte(i) ==
    /\ log[i].op = "expect_hash"
    /\ log[i].nread >= 1
    /\ FirstByteRead(i) # INSTR_HASH

\* C5 (pushback replay): an expect_hash whose first byte b is not 0x3D
\* returns an `other` error having consumed that one byte and leaves b in
\* the queue; the next read_once of the engine (no expect_hash in between)
\* processes b as its instruction and takes no instruction byte from the
\* transport.
C5_PushbackReplay ==
    \A i \in Entries :
        ReadsStrayByte(i)
        => /\ log[i].ret = "Err(Other)"
           /\ log[i].nread = 1
           /\ log[i].q = FirstByteRead(i)
           /\ \A j \in Entries :
                 NextReadAfter(j, i)
                 => /\ log[j].from = "queue"
                    /\ log[j].instr = FirstByteRead(i)
                    /\ (~IsPayloadInstr(log[j].instr) => log[j].nread = 0)

\* An expect_hash swallowed the '!' of a message frame and the next
\* read_once delivered that message.
C5_Witness ==
    \E i \in Entries : \E j \in Entries :
        /\ ReadsStrayByte(i)
        /\ FirstByteRead(i) = INSTR_MSG
        /\ NextReadAfter(j, i)
        /\ Fired(log[j], "msg_new") # << >>

\* C6 (pushback is consumed): a read_once that took its instruction from
\* the pushback queue leaves the queue empty, and the read_once after it
\* takes its instruction byte from the transport.
C6_PushbackConsumed ==
    \A j \in Entries :
        (IsRead(log[j]) /\ log[j].from = "queue")
        => /\ log[j].q = NoByte
           /\ \A x \in Entries : NextReadAfter(x, j) => log[x].from # "queue"

\* The chat_close events that side s fired.
RECURSIVE ChatCloses(_, _)
ChatCloses(s, i) ==
    IF i = 0 THEN 0
    ELSE ChatCloses(s, i - 1)
         + (IF log[i].side = s THEN Len(Fired(log[i], "chat_close")) ELSE 0)

HasClosed(s) == \E i \in Entries : log[i].side = s /\ log[i].op = "close"

\* C7 (close idempotence): every close returns success; chat_close fires at
\* most once per engine, and exactly once on an engine that has the
\* callback and has been closed.
C7_CloseIdempotent ==
    /\ \A i \in Entries : log[i].op = "close" => log[i].ret = "Ok"
    /\ \A s \in Sides :
          /\ ChatCloses(s, Len(log)) <= 1
          /\ (hasChatClose[s] /\ HasClosed(s)) => ChatCloses(s, Len(log)) = 1

\* C8 (closed marking): once close has been called on an engine, with or
\* without a chat_close callback, its closed flag is true and stays true.
C8_ClosedMarked ==
    \A s \in Sides : HasClosed(s) => closed[s]

\* C9 (closed is terminal): after a close on an engine, every later call on
\* it other than close returns an error, whatever the pushback queue
\* holds: none returns a success value, fires msg_new or panics.
C9_ClosedTerminal ==
    \A i \in Entries : \A j \in Entries :
        ( /\ i < j
          /\ log[i].op = "close"
          /\ log[j].side = log[i].side
          /\ log[j].op # "close" )
        => /\ IsErr(log[j].ret)
           /\ Fired(log[j], "msg_new") = << >>

\* Entries i, k, j, r are crossing messages: a send(x) that returned
\* success, a send(y) of the peer, an expect_hash j of x's sender that
\* started reading at the first byte of y's frame, and the first read_once r
\* of x's sender after j.
Crossing(i, k, j, r) ==
    /\ log[i].op = "send" /\ log[i].ret = "Ok"
    /\ log[k].op = "send" /\ log[k].ret = "Ok"
    /\ log[k].side = Peer(log[i].side)
    /\ i < j
    /\ AwaitsAckOf(j, k)
    /\ NextReadAfter(r, j)

\* What C11 states of crossing messages i, k, j, r: expect_hash j returns an
\* `other` error and queues 0x21; read_once r fires msg_new(y) once,
\* acknowledges y and returns true; an expect_hash of x's sender that reads
\* what the peer's read_once of x wrote succeeds with the hash of x; an
\* expect_hash of y's sender that reads what r wrote succeeds with the hash
\* of y.
CrossingDelivered(i, k, j, r) ==
    /\ log[j].ret = "Err(Other)"
    /\ log[j].q = INSTR_MSG
    /\ log[r].ret = "Ok(true)"
    /\ Len(Fired(log[r], "msg_new")) = 1
    /\ Digests(log[r], "msg_new") = {Lossy(log[k].arg)}
    /\ log[r].out = <<INSTR_HASH>> \o Digest(log[k].arg)
    /\ \A b \in Entries : \A l \in Entries :
          (Receives(b, i) /\ r < l /\ AwaitsAckOf(l, b))
          => /\ log[l].ret = "Ok"
             /\ Digests(log[l], "hash_rcvd") = {Digest(log[i].arg)}
    /\ \A e \in Entries :
          AwaitsAckOf(e, r)
          => /\ log[e].ret = "Ok"
             /\ Digests(log[e], "hash_rcvd") = {Digest(log[k].arg)}

\* C11 as stated (interleaved inbound, for every x and y): crossing messages
\* are both delivered and both acknowledged.
C11_InterleavedAnyLength ==
    \A i \in Entries : \A k \in Entries : \A j \in Entries : \A r \in Entries :
        Crossing(i, k, j, r) => CrossingDelivered(i, k, j, r)

\* C11 (interleaved inbound, amended): crossing messages x and y, each of at
\* most the message ceiling's length, are both delivered and both
\* acknowledged: the sender's expect_hash returns `other` and queues 0x21,
\* its next read_once fires msg_new(y) and acknowledges it, and its later
\* expect_hash succeeds with the hash of x.
C11_Interleaved ==
    \A i \in Entries : \A k \in Entries : \A j \in Entries : \A r \in Entries :
        ( /\ Crossing(i, k, j, r)
          /\ Len(log[i].arg) <= MAX_MSG
          /\ Len(log[k].arg) <= MAX_MSG )
        => CrossingDelivered(i, k, j, r)

\* A sent "hi", B sent "y" before reading; A's expect_hash met B's frame,
\* A's read_once delivered it, and A's second expect_hash got B's
\* acknowledgement of "hi".
C11_Witness ==
    \E i \in Entries : \E k \in Entries : \E j \in Entries : \E r \in Entries :
    \E b \in Entries : \E l \in Entries :
        /\ Crossing(i, k, j, r)
        /\ log[i].side = "A" /\ log[i].arg = TextHi /\ log[k].arg = TextY
        /\ Receives(b, i) /\ r < l /\ AwaitsAckOf(l, b)
        /\ log[l].ret = "Ok"

\* The number of ASCII digits b starts with.
RECURSIVE LeadingDigits(_)
LeadingDigits(b) ==
    IF b # << >> /\ IsDigit(Head(b)) THEN 1 + LeadingDigits(Tail(b)) ELSE 0

\* The decimal value of the first d bytes of b, all digits.
RECURSIVE DecimalValue(_, _)
DecimalValue(b, d) ==
    IF d = 0 THEN 0 ELSE DecimalValue(b, d - 1) * 10 + (b[d] - 48)

\* Entry j is a read_once that read, from its first byte on, the message or
\* file frame that the write of entry i put on the stream.
ReadsFrame(j, i) ==
    /\ log[i].op = "write"
    /\ IsPayloadInstr(Head(log[i].arg))
    /\ Receives(j, i)

\* No side had closed the stream when the call of entry j was made.
OpenUntil(j) == \A c \in Entries : c < j => log[c].op # "close"

\* The events named cb that entry j fired with the number n.
FiredWith(j, cb, n) ==
    \E x \in 1..Len(log[j].ev) : log[j].ev[x].cb = cb /\ log[j].ev[x].n = n

\* read_once j went on with the length v: it asked file_incoming(v) for a
\* file, delivered a message of v bytes, or reported v as too large.
Announced(j, v) ==
    IF log[j].instr = INSTR_FILE THEN FiredWith(j, "file_incoming", v)
    ELSE IF v <= MAX_MSG
    THEN \E x \in 1..Len(log[j].ev) :
            log[j].ev[x].cb = "msg_new" /\ Len(log[j].ev[x].bytes) = v
    ELSE FiredWith(j, "payload_too_large", v)

\* read_once j gave the frame up while parsing its length.
LengthAborted(j) ==
    /\ Fired(log[j], "file_incoming") = << >>
    /\ Fired(log[j], "msg_new") = << >>
    /\ Fired(log[j], "payload_too_large") = << >>

\* C12 (length-field acceptance): on an open stream, a read_once that reads
\* a message or file frame whose length field is d >= 1 digits and a
\* terminator (0x0A or 0x20), d + 1 <= 16, goes on with the decimal value of
\* the digits; and it gives a frame up only when the field is 16 digits
\* without a terminator or holds a byte that is neither digit nor
\* terminator.
C12_LengthAccepted ==
    \A i \in Entries : \A j \in Entries :
        (ReadsFrame(j, i) /\ OpenUntil(j))
        => LET b == Tail(log[i].arg)
               d == LeadingDigits(b)
               stop == IF d < Len(b) THEN b[d + 1] ELSE NoByte
           IN  /\ (d >= 1 /\ IsTerminator(stop) /\ d + 1 <= LEN_CAP)
                    => Announced(j, DecimalValue(b, d))
               /\ LengthAborted(j)
                    => (d >= LEN_CAP \/ (stop # NoByte /\ ~IsTerminator(stop)))

\* C13 (length-parser bound): a read_once that reads a message or file
\* frame whose length field begins with 16 or more digits reads at most 16
\* bytes after the instruction byte, none of them a payload byte, and fires
\* none of msg_new, file_incoming, file_complete and payload_too_large.
C13_LengthParserBound ==
    \A i \in Entries : \A j \in Entries :
        (ReadsFrame(j, i) /\ LeadingDigits(Tail(log[i].arg)) >= LEN_CAP)
        => /\ log[j].nread - 1 <= LEN_CAP
           /\ log[j].nread - 1 <= LeadingDigits(Tail(log[i].arg))
           /\ LengthAborted(j)
           /\ Fired(log[j], "file_complete") = << >>

\* A message frame with a 16-digit length field, a terminator and a
\* payload has been read by a read_once.
C13_Witness ==
    \E i \in Entries : \E j \in Entries :
        /\ ReadsFrame(j, i) /\ Head(log[i].arg) = INSTR_MSG
        /\ LeadingDigits(Tail(log[i].arg)) = LEN_CAP
        /\ log[j].nread > 1

\* C14 (oversize message): a read_once that reads the frame of a send(m)
\* with m longer than the message ceiling fires payload_too_large once, with
\* the length of m, fires no msg_new, reads the header and none of the bytes
\* of m, and writes one hash frame whose digest is that of the empty input.
C14_OversizeMessage ==
    \A i \in Entries : \A j \in Entries :
        ( /\ log[i].op = "send" /\ log[i].ret = "Ok"
          /\ Len(log[i].arg) > MAX_MSG
          /\ Receives(j, i) )
        => /\ Len(Fired(log[j], "payload_too_large")) = 1
           /\ FiredWith(j, "payload_too_large", Len(log[i].arg))
           /\ Fired(log[j], "msg_new") = << >>
           /\ log[j].nread = Len(Header(INSTR_MSG, Len(log[i].arg)))
           /\ log[j].out = <<INSTR_HASH>> \o Digest(<< >>)

\* A message one byte longer than the ceiling has been sent and its frame
\* read by the peer's read_once.
C14_Witness ==
    \E i \in Entries : \E j \in Entries :
        /\ log[i].op = "send" /\ log[i].ret = "Ok"
        /\ log[i].arg = TextOver /\ Len(TextOver) = MAX_MSG + 1
        /\ Receives(j, i)
        /\ log[j].ret = "Ok(true)"

\* C15 (I/O error propagation): no call panics, and every call inside
\* which a read or a write of the transport failed returns an error.
C15_ErrorsPropagate ==
    \A i \in Entries :
        /\ log[i].ret # "panic"
        /\ log[i].failed => IsErr(log[i].ret)

\* Side s closed its engine in a call before entry j.
ClosedBefore(s, j) ==
    \E c \in Entries : c < j /\ log[c].side = s /\ log[c].op = "close"

\* Entry j is a read_maybe on an engine that has not been closed, with an
\* empty pushback queue and every byte the peer wrote already read.
PollsWithoutData(j) ==
    /\ log[j].op = "read_maybe"
    /\ log[j].qb = NoByte
    /\ ReadPos(log[j].side, j) = WritePos(Peer(log[j].side), j)
    /\ ~ClosedBefore(log[j].side, j)

\* C16 (polling without data): a read_maybe with an empty pushback queue and
\* no inbound byte available consumes no byte, writes nothing, fires no
\* callback and leaves the stream in blocking mode; it returns Ok(false)
\* while the peer has not closed the stream and a not-connected error once
\* it has.
C16_PollingWithoutData ==
    \A j \in Entries :
        PollsWithoutData(j)
        => /\ log[j].nread = 0
           /\ log[j].out = << >>
           /\ log[j].ev = << >>
           /\ log[j].q = NoByte
           /\ log[j].nb = FALSE
           /\ log[j].ret = IF ClosedBefore(Peer(log[j].side), j)
                           THEN "Err(NotConnected)" ELSE "Ok(false)"

\* A read_maybe without data returned Ok(false), the peer closed the
\* stream, and a second read_maybe returned the not-connected error.
C16_Witness ==
    \E j \in Entries : \E k \in Entries :
        /\ j < k
        /\ PollsWithoutData(j) /\ log[j].ret = "Ok(false)"
        /\ PollsWithoutData(k) /\ log[k].ret = "Err(NotConnected)"
        /\ log[k].side = log[j].side

\* C17 (one acknowledgement per frame): every read_once whose instruction
\* byte is 0x21 or 0x23 writes exactly one 33-byte hash frame, 0x3D and a
\* digest (for a file that was spooled without a failure, the digest of the
\* bytes spooled), and returns true; every read_once that returns false
\* writes nothing and reads at most the instruction byte.
C17_OneAckPerFrame ==
    \A j \in Entries :
        IsRead(log[j])
        => /\ (log[j].instr # NoByte /\ IsPayloadInstr(log[j].instr))
                => /\ log[j].ret = "Ok(true)"
                   /\ Len(log[j].out) = HASH_LEN + 1
                   /\ Head(log[j].out) = INSTR_HASH
                   /\ (Accepted(j) /\ Fired(log[j], "file_failed") = << >>)
                        => Drop(log[j].out, 1) = Digest(log[j].file)
           /\ log[j].ret = "Ok(false)"
                => /\ log[j].out = << >>
                   /\ log[j].nread = (IF log[j].from = "transport" THEN 1 ELSE 0)

\* The last 33 bytes that entry j took from the transport: for a read_once
\* that read a file's trailer, the trailer.
TrailerRead(j) ==
    SubSeq(Written(Peer(log[j].side), j),
           ReadPos(log[j].side, j) + log[j].nread - HASH_LEN,
           ReadPos(log[j].side, j) + log[j].nread)

\* C18 (trailer check): a read_once fires file_hash_by_peer only if the 33
\* bytes it read after the payload begin with 0x3D, and then with the 32
\* bytes that follow that byte.
C18_TrailerCheck ==
    \A j \in Entries :
        (IsRead(log[j]) /\ Fired(log[j], "file_hash_by_peer") # << >>)
        => /\ Head(TrailerRead(j)) = INSTR_HASH
           /\ Digests(log[j], "file_hash_by_peer") = {Tail(TrailerRead(j))}

\* C19 (file_complete means fully drained): a read_once that asked
\* file_incoming(n), was answered yes and fired file_complete has read n
\* payload bytes: with a transfer file that took every write, the file
\* holds n bytes.
C19_CompleteMeansDrained ==
    \A j \in Entries :
        ( /\ IsRead(log[j])
          /\ Accepted(j)
          /\ Fired(log[j], "file_failed") = << >>
          /\ Fired(log[j], "file_complete") # << >> )
        => FiredWith(j, "file_incoming", Len(log[j].file))

\* C20 (send_stream success means a whole frame): a send_stream that
\* returns success has written, after the header, every byte its reader
\* holds and then the hash frame of those bytes; in particular it does not
\* return success when a read of the reader failed part-way.
C20_StreamSuccessIsWhole ==
    \A i \in Entries :
        (log[i].op = "send_stream" /\ log[i].ret = "Ok")
        => /\ log[i].good >= Len(log[i].arg)
           /\ log[i].out = Header(INSTR_FILE, log[i].n) \o log[i].arg
                           \o <<INSTR_HASH>> \o Digest(log[i].arg)

PollerTakesAck(s) ==
    /\ cmd[s] = "sent" /\ cmd'[s] = "sent"
    /\ poller[s] = "loop" /\ poller'[s] = "loop"
    /\ ~shut[s] /\ ~shut'[s]
    /\ queue[s] = NoByte
    /\ wire[s] # << >>
    /\ Head(wire[s]) = INSTR_HASH
    /\ Len(wire'[s]) < Len(wire[s])

\* C22 (acknowledgement is not stolen by the poller): in the chat
\* application no read_maybe of the polling thread, running between the
\* command loop's send and its expect_hash, consumes the acknowledging hash
\* frame of the peer.
C22_AckNotStolen ==
    [][\A s \in Sides : ~PollerTakesAck(s)]_vars

\* The connection of the engine of s has ended: s closed it, or the peer
\* did.
ConnectionEnded(s) == shut[s] \/ shut[Peer(s)]

\* C23 (polling thread terminates): in the chat application, under fair
\* scheduling, a polling thread whose connection has ended eventually
\* leaves its loop on an error of read_maybe and has called close.
C23_PollerTerminates ==
    \A s \in Sides :
        (poller[s] = "loop" /\ ConnectionEnded(s)) ~> (poller[s] = "exited")

\* Entry x is a read_once, between entries i and j of its side, that
\* processed as its instruction the byte that the expect_hash of entry i
\* took from the transport.
ProcessedBetween(i, x, j) ==
    /\ i < x /\ x < j
    /\ log[x].side = log[i].side
    /\ IsRead(log[x])
    /\ log[x].from = "queue"
    /\ log[x].instr = FirstByteRead(i)

\* C24 (no inbound byte is lost): a byte other than 0x3D that an
\* expect_hash took from the transport has been processed as an instruction
\* by a read_once before a later expect_hash of the engine puts another
\* byte in its place, also when the two expect_hash calls follow one
\* another with no read_once in between.
C24_NoInboundByteLost ==
    \A i \in Entries : \A j \in Entries :
        ( /\ i < j
          /\ log[j].side = log[i].side
          /\ ReadsStrayByte(i)
          /\ ReadsStrayByte(j) )
        => \E x \in Entries : ProcessedBetween(i, x, j)

====
